---- MODULE Spec2Model ----
(***************************************************************************)
(* A model of the finder repository: the model client factory (llm.py),    *)
(* the PDF / raw-data extraction helpers and the diagnosis orchestrator    *)
(* (finder.py), and the two upload handlers (finder_ui.py).                *)
(*                                                                         *)
(* Strings are sequences of code points (ASCII where the code compares     *)
(* names), file contents are sequences of bytes, and formatted strings     *)
(* (f-strings) are sequences of parts: a literal, or the value formatted   *)
(* into a hole.                                                            *)
(***************************************************************************)
EXTENDS Integers, Sequences, FiniteSets, TLC

VARIABLES
    pc,                   \* position of the running call
    entry,                \* which entry point is running
    provider,             \* the provider argument (None or a string)
    LLM_PROVIDER,         \* os.environ's LLM_PROVIDER (unset or a string)
    creds,                \* the credential variables present in os.environ
    llm,                  \* the client get_llm returned
    ctor_calls,           \* the client constructors called, in order
    pdf,                  \* the document at pdf_path: its pages
    deps,                 \* the optional dependencies and how they behave
    pdf_text,             \* diagnose_customer_issue's pdf_text
    raw_data_path,        \* the raw_data_path argument: one path or a list
    fs,                   \* the raw files on disk, by path
    raw_text,             \* diagnose_customer_issue's raw_text
    user_prompt,          \* diagnose_customer_issue's user_prompt
    using_gemini_vision,  \* diagnose_customer_issue's vision decision
    messages,             \* the messages handed to llm.invoke
    invoke_outcome,       \* what llm.invoke does when called
    invoke_calls,         \* number of calls of llm.invoke
    result,               \* how the running call ended: a value or an exception
    pdf_file,             \* the UI's uploaded document (None or a file)
    raw_files,            \* the UI's uploaded raw files (None or a list)
    outputs,              \* what the UI handler emitted, in order
    diagnose_calls        \* number of calls of diagnose_customer_issue

vars == <<pc, entry, provider, LLM_PROVIDER, creds, llm, ctor_calls, pdf, deps,
          pdf_text, raw_data_path, fs, raw_text, user_prompt,
          using_gemini_vision, messages, invoke_outcome, invoke_calls, result,
          pdf_file, raw_files, outputs, diagnose_calls>>

----------------------------------------------------------------------------
(* Bounds of the model *)

MaxPages == 2
MaxRawLen == 2
MaxRawFiles == 2
MaxDocPages == 17

(* The page limit diagnose_customer_issue passes to _extract_pdf_page_images *)
MaxPagesArg == 16

----------------------------------------------------------------------------
(* Python values *)

None == [some |-> FALSE, s |-> <<>>]
Str(s) == [some |-> TRUE, s |-> s]
\* truthiness of an optional string: None and "" are falsy
Truthy(v) == v.some /\ v.s # <<>>

\* str.lower() on ASCII
lower(s) == [i \in 1..Len(s) |-> IF s[i] \in 65..90 THEN s[i] + 32 ELSE s[i]]
\* str.upper() on ASCII, used to draw inputs
upper(s) == [i \in 1..Len(s) |-> IF s[i] \in 97..122 THEN s[i] - 32 ELSE s[i]]

IsSpace(c) == c \in {9, 10, 11, 12, 13, 32}

RECURSIVE lstrip(_)
lstrip(s) == IF s # <<>> /\ IsSpace(Head(s)) THEN lstrip(Tail(s)) ELSE s

RECURSIVE rstrip(_)
rstrip(s) ==
    IF s # <<>> /\ IsSpace(s[Len(s)]) THEN rstrip(SubSeq(s, 1, Len(s) - 1)) ELSE s

\* str.strip()
strip(s) == rstrip(lstrip(s))

\* sep.join(parts)
RECURSIVE join(_, _)
join(sep, parts) ==
    IF parts = <<>> THEN <<>>
    ELSE IF Len(parts) = 1 THEN parts[1]
    ELSE parts[1] \o sep \o join(sep, Tail(parts))

\* "\n\n"
NLNL == <<10, 10>>

Range(f) == {f[i] : i \in DOMAIN f}

\* how a call ends: it returns a value or raises an exception
Returned(v) == [kind |-> "return", value |-> v]
Raised(e) == [kind |-> "raise", value |-> e]
Running == [kind |-> "running", value |-> ""]

SeqsUpTo(S, n) == UNION {[1..k -> S] : k \in 0..n}

----------------------------------------------------------------------------
(* llm.py *)

vertex == <<118, 101, 114, 116, 101, 120>>
gemini_api == <<103, 101, 109, 105, 110, 105, 95, 97, 112, 105>>
openai == <<111, 112, 101, 110, 97, 105>>

\* os.getenv(name, default) for LLM_PROVIDER
getenv(var, default) == IF var.some THEN var.s ELSE default

\* A client constructor: reads its credential with os.environ[...], which
\* raises KeyError(<the variable>) when the variable is absent.
Construct(ctor, class, cred, environ) ==
    [ctor |-> ctor,
     class |-> class,
     raised |-> IF cred \in environ THEN "none" ELSE cred]

vertex_llm(environ) ==
    Construct("_vertex_llm", "ChatVertexAI", "GOOGLE_CLOUD_PROJECT", environ)

gemini_api_llm(environ) ==
    Construct("_gemini_api_llm", "ChatGoogleGenerativeAI", "GEMINI_API_KEY", environ)

openai_llm(environ) ==
    Construct("_openai_llm", "ChatOpenAI", "OPENAI_API_KEY", environ)

\* a faulty variant: the environment variable takes precedence over the argument
selected_provider_envfirst(p, envvar) ==
    IF envvar.some THEN lower(envvar.s) ELSE IF Truthy(p) THEN p.s ELSE vertex

\* the name get_llm dispatches on: provider or os.getenv("LLM_PROVIDER", "vertex").lower()
selected_provider(p, envvar) ==
    IF Truthy(p) THEN p.s ELSE lower(getenv(envvar, vertex))

\* get_llm(provider=p)
get_llm(p, envvar, environ) ==
    LET name == selected_provider(p, envvar) IN
    IF name = gemini_api THEN gemini_api_llm(environ)
    ELSE IF name = openai THEN openai_llm(environ)
    ELSE vertex_llm(environ)

----------------------------------------------------------------------------
(* finder.py: raw files *)

REPLACEMENT == 65533

IsCont(b) == b \in 128..191

\* the second byte a multi-byte lead byte accepts
SecondOK(lead, b) ==
    IF lead = 224 THEN b \in 160..191
    ELSE IF lead = 237 THEN b \in 128..159
    ELSE IF lead = 240 THEN b \in 144..191
    ELSE IF lead = 244 THEN b \in 128..143
    ELSE IsCont(b)

\* bytes.decode("utf-8", errors="replace"): each maximal ill-formed
\* subsequence becomes one U+FFFD
RECURSIVE utf8_replace(_)
utf8_replace(b) ==
    IF b = <<>> THEN <<>>
    ELSE LET b1 == b[1]
             n == Len(b)
             rest(k) == SubSeq(b, k + 1, n)
         IN
         IF b1 < 128 THEN <<b1>> \o utf8_replace(rest(1))
         ELSE IF b1 \in 194..223 THEN
             IF n >= 2 /\ IsCont(b[2])
             THEN <<(b1 - 192) * 64 + (b[2] - 128)>> \o utf8_replace(rest(2))
             ELSE <<REPLACEMENT>> \o utf8_replace(rest(1))
         ELSE IF b1 \in 224..239 THEN
             IF n >= 2 /\ SecondOK(b1, b[2])
             THEN IF n >= 3 /\ IsCont(b[3])
                  THEN <<(b1 - 224) * 4096 + (b[2] - 128) * 64 + (b[3] - 128)>>
                       \o utf8_replace(rest(3))
                  ELSE <<REPLACEMENT>> \o utf8_replace(rest(2))
             ELSE <<REPLACEMENT>> \o utf8_replace(rest(1))
         ELSE IF b1 \in 240..244 THEN
             IF n >= 2 /\ SecondOK(b1, b[2])
             THEN IF n >= 3 /\ IsCont(b[3])
                  THEN IF n >= 4 /\ IsCont(b[4])
                       THEN <<(b1 - 240) * 262144 + (b[2] - 128) * 4096
                              + (b[3] - 128) * 64 + (b[4] - 128)>>
                            \o utf8_replace(rest(4))
                       ELSE <<REPLACEMENT>> \o utf8_replace(rest(3))
                  ELSE <<REPLACEMENT>> \o utf8_replace(rest(2))
             ELSE <<REPLACEMENT>> \o utf8_replace(rest(1))
         ELSE <<REPLACEMENT>> \o utf8_replace(rest(1))

\* text mode with newline=None: "\r\n" and "\r" are read as "\n"
RECURSIVE universal_newlines(_)
universal_newlines(s) ==
    IF s = <<>> THEN <<>>
    ELSE IF s[1] = 13 THEN
        IF Len(s) >= 2 /\ s[2] = 10
        THEN <<10>> \o universal_newlines(SubSeq(s, 3, Len(s)))
        ELSE <<10>> \o universal_newlines(Tail(s))
    ELSE <<s[1]>> \o universal_newlines(Tail(s))

\* path.read_text(encoding="utf-8", errors="replace"): raises when the file
\* cannot be opened or read; the decoding itself never raises
read_text(file) ==
    IF file.text_ok
    THEN Returned(universal_newlines(utf8_replace(file.bytes)))
    ELSE Raised("OSError")

\* bytes.decode("latin-1", errors="replace"): byte b is code point b
latin1_decode(b) == [i \in 1..Len(b) |-> b[i]]

\* path.read_bytes().decode("latin-1", errors="replace")
read_bytes_latin1(file) ==
    IF file.bytes_ok THEN Returned(latin1_decode(file.bytes)) ELSE Raised("OSError")

\* a faulty variant: content that is ill-formed UTF-8 counts as undecodable
read_raw_data_strict(file) ==
    IF read_text(file).kind = "return"
    THEN IF REPLACEMENT \in Range(read_text(file).value)
         THEN Returned(<<>>)
         ELSE read_text(file)
    ELSE IF read_bytes_latin1(file).kind = "return" THEN read_bytes_latin1(file)
    ELSE Returned(<<>>)

\* _read_raw_data, on the file at raw_path: the two nested try blocks
read_raw_data(file) ==
    IF read_text(file).kind = "return" THEN read_text(file)
    ELSE IF read_bytes_latin1(file).kind = "return" THEN read_bytes_latin1(file)
    ELSE Returned(<<>>)

----------------------------------------------------------------------------
(* finder.py: the document *)

\* the images pdf2image renders: one per page; a rendering shows the page's
\* text layer and its embedded images
rendered_pages(doc) ==
    [n \in 1..Len(doc.pages) |->
        [page |-> n, visible |-> doc.pages[n].text \o doc.pages[n].image]]

\* convert_from_path(str(pdf_path), fmt="png", ...)
convert_from_path(doc, d) ==
    IF d.convert_from_path = "raises"
    THEN Raised("PDFPageCountError")
    ELSE Returned(rendered_pages(doc))

\* pytesseract.image_to_string(img): the glyphs visible on the rendering,
\* newline-terminated; nothing for a blank rendering
image_to_string(img, d) ==
    IF img.page \in d.ocr_raises THEN Raised("TesseractError")
    ELSE IF img.visible = <<>> THEN Returned(<<>>)
    ELSE Returned(img.visible \o <<10>>)

\* the loop of _extract_ocr_text over the rendered images
RECURSIVE ocr_chunks(_, _)
ocr_chunks(images, d) ==
    IF images = <<>> THEN <<>>
    ELSE LET r == image_to_string(Head(images), d)
             text == IF r.kind = "raise" THEN <<>> ELSE r.value
         IN (IF text # <<>> THEN <<strip(text)>> ELSE <<>>)
            \o ocr_chunks(Tail(images), d)

\* _extract_ocr_text
extract_ocr_text(doc, d) ==
    IF d.convert_from_path = "missing" \/ d.pytesseract = "missing" THEN <<>>
    ELSE IF convert_from_path(doc, d).kind = "raise" THEN <<>>
    ELSE join(NLNL, ocr_chunks(convert_from_path(doc, d).value, d))

\* PdfReader(str(pdf_path)) and "\n\n".join(page.extract_text() or "" ...)
library_text(doc, d) ==
    IF d.PdfReader = "raises"
    THEN Raised("PdfReadError")
    ELSE Returned(join(NLNL, [n \in 1..Len(doc.pages) |-> doc.pages[n].text]))

\* text_content in _extract_pdf_text
text_content(doc, d) ==
    IF d.PdfReader = "missing" THEN <<>>
    ELSE IF library_text(doc, d).kind = "raise" THEN <<>>
    ELSE library_text(doc, d).value

\* a faulty variant: the separator is written also when text_content is empty
extract_pdf_text_sep(doc, d) ==
    LET ocr_text == extract_ocr_text(doc, d) IN
    IF ocr_text # <<>> THEN Returned(text_content(doc, d) \o NLNL \o ocr_text)
    ELSE Returned(text_content(doc, d))

\* a faulty variant: the library call is made outside the try block
extract_pdf_text_unguarded(doc, d) ==
    IF d.PdfReader # "missing" /\ library_text(doc, d).kind = "raise"
    THEN library_text(doc, d)
    ELSE LET ocr_text == extract_ocr_text(doc, d) IN
         IF ocr_text # <<>>
         THEN IF text_content(doc, d) # <<>>
              THEN Returned(text_content(doc, d) \o NLNL \o ocr_text)
              ELSE Returned(ocr_text)
         ELSE Returned(text_content(doc, d))

\* _extract_pdf_text
extract_pdf_text(doc, d) ==
    LET ocr_text == extract_ocr_text(doc, d) IN
    IF ocr_text # <<>>
    THEN IF text_content(doc, d) # <<>>
         THEN Returned(text_content(doc, d) \o NLNL \o ocr_text)
         ELSE Returned(ocr_text)
    ELSE Returned(text_content(doc, d))

\* images[: max_pages]
Take(s, n) == SubSeq(s, 1, IF Len(s) < n THEN Len(s) ELSE n)

\* img.save(buffer, format="PNG") and the base64 data URL of the buffer
save_png(img, d) ==
    IF img.page \in d.save_raises
    THEN Raised("OSError")
    ELSE Returned([png_of_page |-> img.page])

\* the loop of _extract_pdf_page_images: a page whose save raises is skipped
RECURSIVE data_urls(_, _)
data_urls(images, d) ==
    IF images = <<>> THEN <<>>
    ELSE (IF save_png(Head(images), d).kind = "raise"
          THEN <<>>
          ELSE <<save_png(Head(images), d).value>>)
         \o data_urls(Tail(images), d)

\* _extract_pdf_page_images(pdf_path, max_pages=max_pages)
extract_pdf_page_images(doc, d, max_pages) ==
    IF d.convert_from_path = "missing" THEN Returned(<<>>)
    ELSE IF convert_from_path(doc, d).kind = "raise" THEN Returned(<<>>)
    ELSE Returned(data_urls(Take(convert_from_path(doc, d).value, max_pages), d))

----------------------------------------------------------------------------
(* finder.py: diagnose_customer_issue *)

\* the parts of a formatted string
Lit(s) == [lit |-> s]
Val(s) == [str |-> s]
Num(n) == [num |-> n]
PathPart(p) == [path |-> p]

\* f"===== RAW FILE {idx} ({path}) START =====\n{text}\n===== RAW FILE {idx} END ====="
raw_block(idx, path, text) ==
    <<Lit("===== RAW FILE "), Num(idx), Lit(" ("), PathPart(path),
      Lit(") START =====\n"), Val(text),
      Lit("\n===== RAW FILE "), Num(idx), Lit(" END =====")>>

\* a faulty variant: the block is labelled with the 0-based index
raw_parts_zero(paths, files) ==
    [i \in 1..Len(paths) |->
        raw_block(i - 1, paths[i], read_raw_data(files[paths[i]]).value)]

\* raw_parts after the loop over enumerate(raw_data_path, start=1)
raw_parts(paths, files) ==
    [i \in 1..Len(paths) |->
        raw_block(i, paths[i], read_raw_data(files[paths[i]]).value)]

\* the first exception among calls made in order, if any
FirstRaise(calls) ==
    IF \E i \in DOMAIN calls : calls[i].kind = "raise"
    THEN {calls[CHOOSE i \in DOMAIN calls :
                    /\ calls[i].kind = "raise"
                    /\ \A j \in 1..(i - 1) : calls[j].kind # "raise"]}
    ELSE {}

\* raw_text, for a list or tuple of paths and for a single path; an exception
\* of _read_raw_data propagates
read_raw_text(arg, files) ==
    LET reads == [i \in 1..Len(arg.paths) |-> read_raw_data(files[arg.paths[i]])] IN
    IF FirstRaise(reads) # {} THEN CHOOSE r \in FirstRaise(reads) : TRUE
    ELSE IF arg.kind = "list"
    THEN Returned(join(<<Lit("\n\n")>>, raw_parts(arg.paths, files)))
    ELSE Returned(<<Val(reads[1].value)>>)

\* user_prompt
build_user_prompt(ptext, rtext) ==
    <<Lit("The full plain-text extraction of the PDF appears below ...\n\n"),
      Lit("----- PDF TEXT START -----\n"), Val(ptext),
      Lit("\n----- PDF TEXT END -----\n\n"),
      Lit("After the text you will find one image block per page ...\n\n"),
      Lit("----- RAW DATA START -----\n")>>
    \o rtext
    \o <<Lit("\n----- RAW DATA END -----\n\n"),
         Lit("Using ONLY the information provided ...")>>

system_prompt == <<Lit("You are a senior support engineer ...")>>

\* using_gemini_vision
detect_vision(p, client) ==
    IF lower(IF Truthy(p) THEN p.s ELSE <<>>) = gemini_api THEN TRUE
    ELSE client.class = "ChatGoogleGenerativeAI"

\* the three content parts appended for the idx-th data URL
image_block(idx, data_url) ==
    <<[type |-> "text", text |-> <<Lit("----- PDF PAGE "), Num(idx), Lit(" IMAGE START -----")>>],
      [type |-> "image_url", image_url |-> data_url],
      [type |-> "text", text |-> <<Lit("----- PDF PAGE "), Num(idx), Lit(" IMAGE END -----")>>]>>

RECURSIVE image_blocks(_, _)
image_blocks(idx, urls) ==
    IF urls = <<>> THEN <<>>
    ELSE image_block(idx, Head(urls)) \o image_blocks(idx + 1, Tail(urls))

\* messages, in vision mode and in the two-message flow; an exception of
\* _extract_pdf_page_images propagates
build_messages(vision, uprompt, doc, d) ==
    IF vision
    THEN LET page_images == extract_pdf_page_images(doc, d, MaxPagesArg) IN
         IF page_images.kind = "raise" THEN page_images
         ELSE Returned(
            <<[role |-> "human",
               content |-> <<[type |-> "text",
                              text |-> system_prompt \o <<Lit("\n\n")>> \o uprompt]>>
                           \o image_blocks(1, page_images.value)]>>)
    ELSE Returned(
            <<[role |-> "system", content |-> <<[type |-> "text", text |-> system_prompt]>>],
              [role |-> "human", content |-> <<[type |-> "text", text |-> uprompt]>>]>>)

\* content, unwrapped from the response
unwrap(response) ==
    IF response.kind = "str" THEN response.text
    ELSE IF response.content # "" THEN response.content
    ELSE "repr(response)"

ExtractPdfText ==
    /\ pc = "diag_extract"
    /\ LET r == extract_pdf_text(pdf, deps) IN
        IF r.kind = "raise"
        THEN pdf_text' = pdf_text /\ result' = r /\ pc' = "diag_raised"
        ELSE pdf_text' = r.value /\ result' = result /\ pc' = "diag_read_raw"
    /\ UNCHANGED <<entry, provider, LLM_PROVIDER, creds, llm, ctor_calls, pdf, deps,
                   raw_data_path, fs, raw_text, user_prompt, using_gemini_vision,
                   messages, invoke_outcome, invoke_calls, pdf_file,
                   raw_files, outputs, diagnose_calls>>

ReadRawData ==
    /\ pc = "diag_read_raw"
    /\ LET r == read_raw_text(raw_data_path, fs) IN
        IF r.kind = "raise"
        THEN raw_text' = raw_text /\ result' = r /\ pc' = "diag_raised"
        ELSE raw_text' = r.value /\ result' = result /\ pc' = "diag_prompt"
    /\ UNCHANGED <<entry, provider, LLM_PROVIDER, creds, llm, ctor_calls, pdf, deps,
                   pdf_text, raw_data_path, fs, user_prompt, using_gemini_vision,
                   messages, invoke_outcome, invoke_calls, pdf_file,
                   raw_files, outputs, diagnose_calls>>

BuildPrompt ==
    /\ pc = "diag_prompt"
    /\ user_prompt' = build_user_prompt(pdf_text, raw_text)
    /\ pc' = "diag_get_llm"
    /\ UNCHANGED <<entry, provider, LLM_PROVIDER, creds, llm, ctor_calls, pdf, deps,
                   pdf_text, raw_data_path, fs, raw_text, using_gemini_vision,
                   messages, invoke_outcome, invoke_calls, result, pdf_file,
                   raw_files, outputs, diagnose_calls>>

\* llm = get_llm(provider=provider); a KeyError of the constructor propagates
GetLLM ==
    /\ pc = "diag_get_llm"
    /\ LET client == get_llm(provider, LLM_PROVIDER, creds) IN
        /\ ctor_calls' = Append(ctor_calls, client.ctor)
        /\ IF client.raised = "none"
           THEN /\ llm' = client
                /\ pc' = "diag_vision"
                /\ result' = result
           ELSE /\ llm' = llm
                /\ pc' = "diag_raised"
                /\ result' = Raised(client.raised)
    /\ UNCHANGED <<entry, provider, LLM_PROVIDER, creds, pdf, deps, pdf_text,
                   raw_data_path, fs, raw_text, user_prompt, using_gemini_vision,
                   messages, invoke_outcome, invoke_calls, pdf_file, raw_files,
                   outputs, diagnose_calls>>

DetectVision ==
    /\ pc = "diag_vision"
    /\ using_gemini_vision' = detect_vision(provider, llm)
    /\ pc' = "diag_messages"
    /\ UNCHANGED <<entry, provider, LLM_PROVIDER, creds, llm, ctor_calls, pdf, deps,
                   pdf_text, raw_data_path, fs, raw_text, user_prompt, messages,
                   invoke_outcome, invoke_calls, result, pdf_file, raw_files,
                   outputs, diagnose_calls>>

BuildMessages ==
    /\ pc = "diag_messages"
    /\ LET r == build_messages(using_gemini_vision, user_prompt, pdf, deps) IN
        IF r.kind = "raise"
        THEN messages' = messages /\ result' = r /\ pc' = "diag_raised"
        ELSE messages' = r.value /\ result' = result /\ pc' = "diag_invoke"
    /\ UNCHANGED <<entry, provider, LLM_PROVIDER, creds, llm, ctor_calls, pdf, deps,
                   pdf_text, raw_data_path, fs, raw_text, user_prompt,
                   using_gemini_vision, invoke_outcome, invoke_calls,
                   pdf_file, raw_files, outputs, diagnose_calls>>

\* response = llm.invoke(messages), then the unwrapping and the return; an
\* exception of invoke propagates
Invoke ==
    /\ pc = "diag_invoke"
    /\ invoke_calls' = invoke_calls + 1
    /\ IF invoke_outcome.kind = "raises"
       THEN /\ result' = Raised(invoke_outcome.text)
            /\ pc' = "diag_raised"
       ELSE /\ result' = Returned(unwrap(invoke_outcome))
            /\ pc' = "diag_returned"
    /\ UNCHANGED <<entry, provider, LLM_PROVIDER, creds, llm, ctor_calls, pdf, deps,
                   pdf_text, raw_data_path, fs, raw_text, user_prompt,
                   using_gemini_vision, messages, invoke_outcome, pdf_file,
                   raw_files, outputs, diagnose_calls>>

NextDiag ==
    \/ ExtractPdfText
    \/ ReadRawData
    \/ BuildPrompt
    \/ GetLLM
    \/ DetectVision
    \/ BuildMessages
    \/ Invoke

----------------------------------------------------------------------------
(* finder_ui.py *)

NoFile == [some |-> FALSE, name |-> ""]
NoList == [some |-> FALSE, v |-> <<>>]

\* a faulty variant: only a raw_files of None counts as missing
inputs_missing_none(pf, rf) == ~pf.some \/ ~rf.some

\* pdf_file is None or not raw_files
inputs_missing(pf, rf) == ~pf.some \/ ~rf.some \/ rf.v = <<>>

\* a faulty variant: the exception's text is left out
error_message_generic(exc) == <<Lit("Error running diagnosis")>>

\* f"Error running diagnosis: {exc}"
error_message(exc) == <<Lit("Error running diagnosis: "), Val(exc)>>

PLEASE_UPLOAD == <<Lit("Please upload both the PDF and raw data files.")>>
PLEASE_UPLOAD_ONE == <<Lit("Please upload both the PDF and at least one raw data file.")>>
RUNNING_STATUS == <<Lit("Running diagnosis - this may take a minute...")>>

\* raw_path.write_bytes(rf.getbuffer()) for each upload, in order
RECURSIVE write_uploads(_, _)
write_uploads(files, uploads) ==
    IF uploads = <<>> THEN files
    ELSE write_uploads(
            [files EXCEPT ![Head(uploads).name] =
                [text_ok |-> TRUE, bytes_ok |-> TRUE, bytes |-> Head(uploads).buffer]],
            Tail(uploads))

names_of(uploads) == [i \in 1..Len(uploads) |-> uploads[i].name]

\* _run_diagnosis up to its first yield
RunDiagnosisStart ==
    /\ pc = "ui_start"
    /\ entry = "_run_diagnosis"
    /\ IF inputs_missing(pdf_file, raw_files)
       THEN /\ outputs' = Append(outputs, [kind |-> "prompt", text |-> PLEASE_UPLOAD])
            /\ pc' = "ui_done"
       ELSE /\ outputs' = Append(outputs, [kind |-> "interim", text |-> RUNNING_STATUS])
            /\ pc' = "ui_running"
    /\ UNCHANGED <<entry, provider, LLM_PROVIDER, creds, llm, ctor_calls, pdf, deps,
                   pdf_text, raw_data_path, fs, raw_text, user_prompt,
                   using_gemini_vision, messages, invoke_outcome, invoke_calls,
                   result, pdf_file, raw_files, diagnose_calls>>

\* _run_diagnosis resumed: the paths, then diagnose_customer_issue(pdf_path, raw_paths)
RunDiagnosisCall ==
    /\ pc = "ui_running"
    /\ entry = "_run_diagnosis"
    /\ raw_data_path' = [kind |-> "list", paths |-> names_of(raw_files.v)]
    /\ provider' = None
    /\ diagnose_calls' = diagnose_calls + 1
    /\ pc' = "diag_extract"
    /\ UNCHANGED <<entry, LLM_PROVIDER, creds, llm, ctor_calls, pdf, deps, pdf_text,
                   fs, raw_text, user_prompt, using_gemini_vision, messages,
                   invoke_outcome, invoke_calls, result, pdf_file, raw_files, outputs>>

\* _run_diagnosis after the call: yield result, or the except clause
RunDiagnosisFinish ==
    /\ pc \in {"diag_returned", "diag_raised"}
    /\ entry = "_run_diagnosis"
    /\ outputs' = Append(outputs,
                         IF pc = "diag_returned"
                         THEN [kind |-> "result", text |-> <<Val(result.value)>>]
                         ELSE [kind |-> "error", text |-> error_message(result.value)])
    /\ pc' = "ui_done"
    /\ UNCHANGED <<entry, provider, LLM_PROVIDER, creds, llm, ctor_calls, pdf, deps,
                   pdf_text, raw_data_path, fs, raw_text, user_prompt,
                   using_gemini_vision, messages, invoke_outcome, invoke_calls,
                   result, pdf_file, raw_files, diagnose_calls>>

\* launch: the Diagnose button, up to the call of diagnose_customer_issue
LaunchDiagnose ==
    /\ pc = "ui_start"
    /\ entry = "launch"
    /\ IF inputs_missing(pdf_file, raw_files)
       THEN /\ outputs' = Append(outputs, [kind |-> "prompt", text |-> PLEASE_UPLOAD_ONE])
            /\ pc' = "ui_done"
            /\ UNCHANGED <<fs, raw_data_path, provider, diagnose_calls>>
       ELSE /\ outputs' = Append(outputs, [kind |-> "interim", text |-> RUNNING_STATUS])
            /\ fs' = write_uploads(fs, raw_files.v)
            /\ raw_data_path' = [kind |-> "list", paths |-> names_of(raw_files.v)]
            /\ provider' = None
            /\ diagnose_calls' = diagnose_calls + 1
            /\ pc' = "diag_extract"
    /\ UNCHANGED <<entry, LLM_PROVIDER, creds, llm, ctor_calls, pdf, deps, pdf_text,
                   raw_text, user_prompt, using_gemini_vision, messages,
                   invoke_outcome, invoke_calls, result, pdf_file, raw_files>>

\* launch after the call: st.markdown(result), or st.error in the except clause
LaunchFinish ==
    /\ pc \in {"diag_returned", "diag_raised"}
    /\ entry = "launch"
    /\ outputs' = Append(outputs,
                         IF pc = "diag_returned"
                         THEN [kind |-> "result", text |-> <<Val(result.value)>>]
                         ELSE [kind |-> "error", text |-> error_message(result.value)])
    /\ pc' = "ui_done"
    /\ UNCHANGED <<entry, provider, LLM_PROVIDER, creds, llm, ctor_calls, pdf, deps,
                   pdf_text, raw_data_path, fs, raw_text, user_prompt,
                   using_gemini_vision, messages, invoke_outcome, invoke_calls,
                   result, pdf_file, raw_files, diagnose_calls>>

NextUI ==
    \/ RunDiagnosisStart
    \/ RunDiagnosisCall
    \/ RunDiagnosisFinish
    \/ LaunchDiagnose
    \/ LaunchFinish
    \/ ExtractPdfText
    \/ ReadRawData
    \/ BuildPrompt
    \/ GetLLM
    \/ DetectVision
    \/ BuildMessages
    \/ Invoke

----------------------------------------------------------------------------
(* Inputs *)

bogus == <<98, 111, 103, 117, 115>>

KnownNames == {vertex, gemini_api, openai}
ProviderValues ==
    {None, Str(<<>>)}
    \cup {Str(n) : n \in KnownNames \cup {upper(gemini_api), upper(openai), bogus}}

AllCreds == {"GOOGLE_CLOUD_PROJECT", "GEMINI_API_KEY", "OPENAI_API_KEY"}

PageSet == [text : {<<>>, <<65>>}, image : {<<>>, <<66>>}]
TextPage == [text |-> <<65>>, image |-> <<>>]
Docs(n) == [pages : SeqsUpTo(PageSet, n)]
OneTextPage == [pages |-> <<TextPage>>]

DepsOf(doc, Saves) ==
    [PdfReader : {"missing", "raises", "ok"},
     convert_from_path : {"missing", "raises", "ok"},
     pytesseract : {"missing", "ok"},
     ocr_raises : SUBSET (1..Len(doc.pages)),
     save_raises : Saves]
AllOK ==
    [PdfReader |-> "ok", convert_from_path |-> "ok", pytesseract |-> "ok",
     ocr_raises |-> {}, save_raises |-> {}]

Paths == {"a.log", "b.log"}
ByteSet == {10, 13, 65, 129, 169, 195, 233}
Files(Contents) == [text_ok : BOOLEAN, bytes_ok : BOOLEAN, bytes : Contents]
PlainFile == [text_ok |-> TRUE, bytes_ok |-> TRUE, bytes |-> <<65>>]
Single(p) == [kind |-> "single", paths |-> <<p>>]
List(ps) == [kind |-> "list", paths |-> ps]

Reply(kind, text, content) == [kind |-> kind, text |-> text, content |-> content]
Replies ==
    {Reply("str", "diagnosis", ""), Reply("message", "", "diagnosis"),
     Reply("message", "", ""), Reply("raises", "503 unavailable", "")}
NoClient == [ctor |-> "", class |-> "", raised |-> "none"]

\* a direct call of diagnose_customer_issue(pdf_path, raw_data_path, provider=...)
InitDiag ==
    /\ pc = "diag_extract"
    /\ entry = "direct"
    /\ llm = NoClient
    /\ ctor_calls = <<>>
    /\ pdf_text = <<>>
    /\ raw_text = <<>>
    /\ user_prompt = <<>>
    /\ using_gemini_vision = FALSE
    /\ messages = <<>>
    /\ invoke_calls = 0
    /\ result = Running
    /\ pdf_file = NoFile
    /\ raw_files = NoList
    /\ outputs = <<>>
    /\ diagnose_calls = 1

\* every provider argument against every LLM_PROVIDER and credential set
InitProvider ==
    /\ InitDiag
    /\ provider \in ProviderValues
    /\ LLM_PROVIDER \in ProviderValues
    /\ creds \in SUBSET AllCreds
    /\ pdf = OneTextPage
    /\ deps = AllOK
    /\ raw_data_path = Single("a.log")
    /\ fs = [p \in Paths |-> PlainFile]
    /\ invoke_outcome = Reply("str", "diagnosis", "")

SpecProvider == InitProvider /\ [][NextDiag]_vars

\* every document of at most MaxPages pages against every dependency state
InitExtract ==
    /\ InitDiag
    /\ provider \in {None, Str(gemini_api)}
    /\ LLM_PROVIDER = None
    /\ creds = AllCreds
    /\ pdf \in Docs(MaxPages)
    /\ deps \in DepsOf(pdf, {{}})
    /\ raw_data_path = Single("a.log")
    /\ fs = [p \in Paths |-> PlainFile]
    /\ invoke_outcome = Reply("str", "diagnosis", "")

SpecExtract == InitExtract /\ [][NextDiag]_vars

\* a single raw file of at most MaxRawLen bytes, readable or not
InitRaw ==
    /\ InitDiag
    /\ provider \in {None, Str(gemini_api)}
    /\ LLM_PROVIDER = None
    /\ creds = AllCreds
    /\ pdf = OneTextPage
    /\ deps = AllOK
    /\ raw_data_path = Single("a.log")
    /\ \E f \in Files(SeqsUpTo(ByteSet, MaxRawLen)) :
          fs = [p \in Paths |-> IF p = "a.log" THEN f ELSE PlainFile]
    /\ invoke_outcome = Reply("str", "diagnosis", "")

SpecRaw == InitRaw /\ [][NextDiag]_vars

\* a list of at most MaxRawFiles paths (or a single path) over the files on disk
InitRawList ==
    /\ InitDiag
    /\ provider \in {None, Str(gemini_api)}
    /\ LLM_PROVIDER = None
    /\ creds = AllCreds
    /\ pdf = OneTextPage
    /\ deps = AllOK
    /\ raw_data_path \in {List(ps) : ps \in SeqsUpTo(Paths, MaxRawFiles)}
                         \cup {Single(p) : p \in Paths}
    /\ fs \in [Paths -> Files({<<>>, <<65>>, <<129>>})]
    /\ invoke_outcome = Reply("str", "diagnosis", "")

SpecRawList == InitRawList /\ [][NextDiag]_vars

\* every combination of failing extraction steps, with and without a client
InitFail ==
    /\ InitDiag
    /\ provider \in {None, Str(gemini_api)}
    /\ LLM_PROVIDER = None
    /\ creds \in {AllCreds, {}}
    /\ \E n \in 0..MaxPages : pdf = [pages |-> [i \in 1..n |-> TextPage]]
    /\ deps \in DepsOf(pdf, SUBSET (1..Len(pdf.pages)))
    /\ raw_data_path \in {Single("a.log"), List(<<"a.log", "b.log">>)}
    /\ \E f \in Files({<<65>>}) :
          fs = [p \in Paths |-> IF p = "a.log" THEN f ELSE PlainFile]
    /\ invoke_outcome \in {Reply("str", "diagnosis", ""), Reply("raises", "503 unavailable", "")}

SpecFail == InitFail /\ [][NextDiag]_vars

\* documents of up to MaxDocPages pages, at most one of which fails to save
InitImages ==
    /\ InitDiag
    /\ provider \in {None, Str(gemini_api)}
    /\ LLM_PROVIDER = None
    /\ creds = AllCreds
    /\ \E n \in 0..MaxDocPages : pdf = [pages |-> [i \in 1..n |-> TextPage]]
    /\ \E bad \in {{}} \cup {{k} : k \in 1..Len(pdf.pages)} :
       \E conv \in {"missing", "raises", "ok"} :
          deps = [AllOK EXCEPT !.save_raises = bad, !.convert_from_path = conv]
    /\ raw_data_path = Single("a.log")
    /\ fs = [p \in Paths |-> PlainFile]
    /\ invoke_outcome = Reply("str", "diagnosis", "")

SpecImages == InitImages /\ [][NextDiag]_vars

\* the upload handlers: every combination of present and absent uploads
Uploads == [name : Paths, buffer : {<<65>>}]
InitUI ==
    /\ pc = "ui_start"
    /\ entry \in {"_run_diagnosis", "launch"}
    /\ pdf_file \in {NoFile, [some |-> TRUE, name |-> "doc.pdf"]}
    /\ raw_files \in {NoList} \cup {[some |-> TRUE, v |-> u] : u \in SeqsUpTo(Uploads, MaxRawFiles)}
    /\ entry = "launch" => raw_files.some
    /\ provider = None
    /\ LLM_PROVIDER \in {None, Str(gemini_api)}
    /\ creds \in {AllCreds, {}}
    /\ pdf = OneTextPage
    /\ deps = AllOK
    /\ raw_data_path = List(<<>>)
    /\ fs = [p \in Paths |-> PlainFile]
    /\ invoke_outcome \in Replies
    /\ llm = NoClient
    /\ ctor_calls = <<>>
    /\ pdf_text = <<>>
    /\ raw_text = <<>>
    /\ user_prompt = <<>>
    /\ using_gemini_vision = FALSE
    /\ messages = <<>>
    /\ invoke_calls = 0
    /\ result = Running
    /\ outputs = <<>>
    /\ diagnose_calls = 0

SpecUI == InitUI /\ [][NextUI]_vars

Spec == SpecUI

----------------------------------------------------------------------------
(* Properties *)

AfterExtract == pc \notin {"diag_extract", "ui_start", "ui_running"}
AfterReadRaw == AfterExtract /\ pc # "diag_read_raw"
AfterPrompt == AfterReadRaw /\ pc # "diag_prompt"
AfterMessages == pc \in {"diag_invoke", "diag_returned"}

Optional(S) == {None} \cup {Str(n) : n \in S}

CtorNamed(name) ==
    IF name = gemini_api THEN "_gemini_api_llm"
    ELSE IF name = openai THEN "_openai_llm"
    ELSE "_vertex_llm"

\* C1: for every explicit argument in {none, vertex, gemini_api, openai} and
\* LLM_PROVIDER in {unset, vertex, gemini_api, openai}, get_llm calls exactly
\* one client constructor: the one the argument names if an argument is given,
\* otherwise the one LLM_PROVIDER names if it is set, otherwise Vertex's; no
\* constructor is called before get_llm runs.
C1_Precedence ==
    (provider \in Optional(KnownNames) /\ LLM_PROVIDER \in Optional(KnownNames)) =>
        IF pc \in {"diag_extract", "diag_read_raw", "diag_prompt", "diag_get_llm"}
        THEN ctor_calls = <<>>
        ELSE ctor_calls =
                <<CtorNamed(IF provider.some THEN provider.s
                            ELSE IF LLM_PROVIDER.some THEN LLM_PROVIDER.s
                            ELSE vertex)>>

C1_Witness ==
    /\ pc = "diag_vision"
    /\ provider = Str(openai)
    /\ LLM_PROVIDER = Str(gemini_api)
    /\ ctor_calls = <<"_openai_llm">>

\* C9: whenever the orchestrator has decided on vision mode, the decision
\* agrees with the client the factory constructed: vision mode (the single
\* human message with image blocks) is used if and only if the client is the
\* Gemini API client, for every provider argument and LLM_PROVIDER value.
C9_VisionAgreesWithBackend ==
    /\ pc \in {"diag_messages", "diag_invoke", "diag_returned"} =>
          (using_gemini_vision <=> llm.class = "ChatGoogleGenerativeAI")
    /\ AfterMessages =>
          (Len(messages) = 1 <=> llm.class = "ChatGoogleGenerativeAI")

\* C2: for a list of raw-file paths, raw_text is, for every i from 1 in input
\* order, a block of a start marker naming i and the i-th path, the i-th
\* file's decoded content and an end marker naming i, the blocks separated by
\* a blank line and nothing else; and that text is what the prompt sent to
\* the model carries between its raw-data markers.
C2_RawBlocks ==
    (raw_data_path.kind = "list" /\ AfterReadRaw) =>
        LET ps == raw_data_path.paths
            n == Len(ps)
        IN /\ Len(raw_text) = (IF n = 0 THEN 0 ELSE 10 * n - 1)
           /\ \A i \in 1..n :
                LET o == 10 * (i - 1) IN
                /\ raw_text[o + 1] = Lit("===== RAW FILE ")
                /\ raw_text[o + 2] = Num(i)
                /\ raw_text[o + 3] = Lit(" (")
                /\ raw_text[o + 4] = PathPart(ps[i])
                /\ raw_text[o + 5] = Lit(") START =====\n")
                /\ raw_text[o + 6] =
                      Val(IF fs[ps[i]].text_ok
                          THEN universal_newlines(utf8_replace(fs[ps[i]].bytes))
                          ELSE IF fs[ps[i]].bytes_ok THEN latin1_decode(fs[ps[i]].bytes)
                          ELSE <<>>)
                /\ raw_text[o + 7] = Lit("\n===== RAW FILE ")
                /\ raw_text[o + 8] = Num(i)
                /\ raw_text[o + 9] = Lit(" END =====")
                /\ i < n => raw_text[o + 10] = Lit("\n\n")
           /\ AfterPrompt =>
                /\ user_prompt[6] = Lit("----- RAW DATA START -----\n")
                /\ SubSeq(user_prompt, 7, 6 + Len(raw_text)) = raw_text
                /\ user_prompt[7 + Len(raw_text)] = Lit("\n----- RAW DATA END -----\n\n")
           /\ AfterMessages =>
                LET text == messages[Len(messages)].content[1].text IN
                SubSeq(text, Len(text) - Len(user_prompt) + 1, Len(text)) = user_prompt

C2_Witness ==
    /\ pc = "diag_invoke"
    /\ raw_data_path = List(<<"b.log", "a.log">>)
    /\ ~fs["b.log"].text_ok /\ ~fs["b.log"].bytes_ok
    /\ fs["a.log"].text_ok /\ fs["a.log"].bytes = <<65>>
    /\ raw_text[6] = Val(<<>>)
    /\ raw_text[16] = Val(<<65>>)

\* C3: whatever extraction steps fail, diagnose_customer_issue raises only
\* what the client constructor or invoke raised; invoke is never called
\* twice; and when the client can be constructed the call ends with invoke
\* called exactly once.
C3_InvokeOnce ==
    /\ invoke_calls <= 1
    /\ pc = "diag_raised" =>
          \/ invoke_calls = 0 /\ result.value \in AllCreds /\ result.value \notin creds
          \/ /\ invoke_calls = 1
             /\ invoke_outcome.kind = "raises"
             /\ result.value = invoke_outcome.text
    /\ pc = "diag_returned" => invoke_calls = 1
    /\ (creds = AllCreds /\ pc \in {"diag_returned", "diag_raised"}) => invoke_calls = 1
    /\ (creds = AllCreds /\ pc \notin {"diag_returned", "diag_raised"}) => invoke_calls = 0

C3_Witness ==
    /\ pc = "diag_returned"
    /\ invoke_calls = 1
    /\ deps.PdfReader = "raises"
    /\ deps.convert_from_path = "raises"
    /\ ~fs["a.log"].text_ok /\ ~fs["a.log"].bytes_ok
    /\ raw_data_path.kind = "single"
    /\ pdf_text = <<>>
    /\ raw_text = <<Val(<<>>)>>
    /\ using_gemini_vision

NoInputs == ~pdf_file.some \/ ~raw_files.some \/ Len(raw_files.v) = 0

\* C4: when the document or the raw files are missing (raw_files None or
\* empty), either UI handler emits one prompting message and stops:
\* diagnose_customer_issue is never called, no client is constructed and
\* invoke is never called.
C4_NoCallWithoutInputs ==
    (entry \in {"_run_diagnosis", "launch"} /\ NoInputs) =>
        /\ diagnose_calls = 0
        /\ invoke_calls = 0
        /\ ctor_calls = <<>>
        /\ pc \in {"ui_start", "ui_done"}
        /\ pc = "ui_start" => outputs = <<>>
        /\ pc = "ui_done" => Len(outputs) = 1 /\ outputs[1].kind = "prompt"

C4_Witness ==
    /\ entry = "_run_diagnosis"
    /\ pdf_file.some
    /\ raw_files.some /\ raw_files.v = <<>>
    /\ pc = "ui_done"
    /\ outputs = <<[kind |-> "prompt", text |-> PLEASE_UPLOAD]>>

\* C5: a run of _run_diagnosis with a document and at least one raw file
\* emits the interim status first and exactly one terminal output last: the
\* orchestrator's returned text, or an error string containing the text of
\* the exception the orchestrator raised; every exception ends in that error
\* output and nothing is emitted after the terminal output.
C5_RunSequence ==
    (entry = "_run_diagnosis" /\ ~NoInputs) =>
        /\ pc # "ui_start" => Len(outputs) >= 1 /\ outputs[1].kind = "interim"
        /\ pc = "ui_start" => outputs = <<>>
        /\ pc \notin {"ui_start", "ui_done"} => Len(outputs) = 1
        /\ pc = "ui_done" =>
              /\ Len(outputs) = 2
              /\ diagnose_calls = 1
              /\ result.kind \in {"return", "raise"}
              /\ result.kind = "return" =>
                    outputs[2] = [kind |-> "result", text |-> <<Val(result.value)>>]
              /\ result.kind = "raise" =>
                    /\ outputs[2].kind = "error"
                    /\ Val(result.value) \in Range(outputs[2].text)
        /\ pc \in {"diag_returned", "diag_raised"} => ENABLED RunDiagnosisFinish

C5_Witness ==
    /\ entry = "_run_diagnosis"
    /\ pc = "ui_done"
    /\ result = Raised("503 unavailable")
    /\ invoke_calls = 1
    /\ Len(outputs) = 2
    /\ outputs[2] = [kind |-> "error", text |-> error_message("503 unavailable")]

LibraryFails == deps.PdfReader \in {"missing", "raises"}
OcrAvailable == deps.convert_from_path = "ok" /\ deps.pytesseract = "ok"
NonEmpty(t) == t # <<>>

\* what OCR recognises on the document: per page not failing recognition, the
\* glyphs of its text layer and embedded images, blank pages left out
Recognised ==
    SelectSeq([n \in 1..Len(pdf.pages) |->
                  IF n \in deps.ocr_raises THEN <<>>
                  ELSE pdf.pages[n].text \o pdf.pages[n].image],
              NonEmpty)

TextOnly ==
    /\ Len(pdf.pages) >= 1
    /\ \A n \in 1..Len(pdf.pages) : pdf.pages[n].text # <<>> /\ pdf.pages[n].image = <<>>

\* C7: for a document whose pages all have extractable text and no images,
\* _extract_pdf_text returns the library's text (the page texts joined by
\* blank lines) exactly, whatever the state of the OCR dependencies.
C7_TextOnlyExact ==
    (AfterExtract /\ deps.PdfReader = "ok" /\ TextOnly) =>
        pdf_text = join(NLNL, [n \in 1..Len(pdf.pages) |-> pdf.pages[n].text])

RawFile == fs[raw_data_path.paths[1]]
InvalidUtf8(b) == REPLACEMENT \in Range(utf8_replace(b))
\* ISO/IEC 8859-1 assigns no character to the bytes 0x80..0x9F
InvalidLatin1(b) == \E i \in 1..Len(b) : b[i] \in 128..159

ThreeWayDecoding ==
    IF RawFile.text_ok THEN universal_newlines(utf8_replace(RawFile.bytes))
    ELSE IF RawFile.bytes_ok THEN latin1_decode(RawFile.bytes)
    ELSE <<>>

C10_LabelsNamePages ==
    (AfterMessages /\ using_gemini_vision) =>
        LET content == messages[1].content
            ImageAt == {k \in 1..Len(content) : content[k].type = "image_url"}
        IN /\ Cardinality(ImageAt) <= 16
           /\ \A k \in ImageAt :
                /\ content[k - 1].text[2] = Num(content[k].image_url.png_of_page)
                /\ content[k + 1].text[2] = Num(content[k].image_url.png_of_page)

====
